---------------------------- MODULE Spec2Model ----------------------------
(***************************************************************************)
(* Order-manager dashboard: the Order Gateway and Courier Gateway of       *)
(* services/orderService.ts (WooCommerce REST revision) and the Order      *)
(* Lifecycle Controller of App.tsx with the booking flow of                *)
(* components/OrderDetailModal.tsx.                                        *)
(*                                                                         *)
(* The specifications of the module:                                       *)
(*   GatewaySpec  applies the gateway functions to replies drawn from      *)
(*                bounded sets (gw holds the call and its result);         *)
(*   Spec         is the controller: React state, the requests in flight   *)
(*                with the values their closures captured, the remote      *)
(*                store and localStorage;                                  *)
(*   FairSpec     is Spec with every request in flight returning;          *)
(*   RequestSpec  applies handleUpdateStatus to detail views with and      *)
(*                without credentials;                                     *)
(*   HistorySpec  is the detail view's pair of courier-history fetches.    *)
(***************************************************************************)
EXTENDS Naturals, Sequences, FiniteSets, Bags, TLC

VARIABLES
  gw,             \* gateway call under test and its result (GatewaySpec)
  orders,         \* App state: Order[]
  selectedOrder,  \* App state: Order | null
  isLoading,      \* App state
  error,          \* App state: message | null
  isLoggedIn,     \* App state
  isConnected,    \* App state
  siteUrl,        \* App state: string | null
  authHeader,     \* App state: string | null
  localStorage,   \* browser storage: key -> value | null
  modal,          \* state of the mounted OrderDetailModal instance
  inflight,       \* bag of the asynchronous calls that have not returned
  remote,         \* the remote store: order id -> WooCommerce status
  alerts,         \* messages shown with alert()
  booked,         \* history: order ids for which sendToCourier returned success
  resync,         \* history: a failed update still owes its rollback
  issued,         \* history: calls the operator has started
  updates,        \* history: per order, the status last requested and last answered
  history         \* the mounted detail view's courier-history slots

vars == <<gw, orders, selectedOrder, isLoading, error, isLoggedIn, isConnected,
          siteUrl, authHeader, localStorage, modal, inflight, remote, alerts,
          booked, resync, issued, updates, history>>

ctlVars == <<orders, selectedOrder, isLoading, error, isLoggedIn, isConnected,
             siteUrl, authHeader, localStorage, modal, inflight, remote, alerts,
             booked, resync, issued, updates, history>>

-----------------------------------------------------------------------------
(* Values                                                                  *)

\* JavaScript null / undefined for string-valued slots.
NULL == "null"

\* !x for a string-valued slot: null, undefined and '' are falsy.
Falsy(x) == x = NULL \/ x = ""

OrderStatus == {"Pending", "Processing", "Shipped", "Delivered", "Cancelled"}

Courier == {"Steadfast", "Pathao"}

\* A message is a sequence of text fragments; << >> is the empty string.
Txt(n) == ToString(n)

\* s occurs in message m as consecutive fragments.
Includes(m, s) ==
  \E i \in 1..(Len(m) + 1 - Len(s)) : SubSeq(m, i, i + Len(s) - 1) = s

\* A thrown value: an Error with its message, or some other value.
ErrorOf(m) == [isError |-> TRUE, message |-> m]

NonError == [isError |-> FALSE, message |-> << >>]

\* response.ok
ResponseOk(status) == status >= 200 /\ status <= 299

-----------------------------------------------------------------------------
(* Order Gateway: services/orderService.ts, WooCommerce REST revision      *)

\* checkMixedContent throws when an HTTPS app addresses an HTTP site.
MixedContentError ==
  ErrorOf(<<"Security Error:", "Mixed Content.", "This app is running on HTTPS",
            "but your site is HTTP">>)

checkMixedContent(appHttps, siteHttp) == appHttps /\ siteHttp

\* Faulty variant of mapStatus: no default for a status outside the table.
mapStatusNoDefault(wcStatus) ==
  CASE wcStatus = "pending"    -> "Pending"
    [] wcStatus = "processing" -> "Processing"
    [] wcStatus = "on-hold"    -> "Pending"
    [] wcStatus = "completed"  -> "Delivered"
    [] wcStatus = "cancelled"  -> "Cancelled"
    [] wcStatus = "refunded"   -> "Cancelled"
    [] wcStatus = "failed"     -> "Cancelled"
    [] OTHER                   -> "undefined"

\* Faulty variant of mapStatus: on-hold is not folded into Pending.
mapStatusOnHoldApart(wcStatus) ==
  CASE wcStatus = "pending"    -> "Pending"
    [] wcStatus = "processing" -> "Processing"
    [] wcStatus = "on-hold"    -> "Processing"
    [] wcStatus = "completed"  -> "Delivered"
    [] wcStatus = "cancelled"  -> "Cancelled"
    [] wcStatus = "refunded"   -> "Cancelled"
    [] wcStatus = "failed"     -> "Cancelled"
    [] OTHER                   -> "Pending"

\* statusMap of mapWooCommerceOrder with its || OrderStatus.Pending default.
mapStatus(wcStatus) ==
  CASE wcStatus = "pending"    -> "Pending"
    [] wcStatus = "processing" -> "Processing"
    [] wcStatus = "on-hold"    -> "Pending"
    [] wcStatus = "completed"  -> "Delivered"
    [] wcStatus = "cancelled"  -> "Cancelled"
    [] wcStatus = "refunded"   -> "Cancelled"
    [] wcStatus = "failed"     -> "Cancelled"
    [] OTHER                   -> "Pending"

\* The Order built from one WooCommerce order: no courier, no tracking id.
mapWooCommerceOrder(wcOrder) ==
  [id |-> wcOrder.id, status |-> mapStatus(wcOrder.status),
   courier |-> NULL, trackingId |-> NULL]

\* The result of an awaited gateway call: a value or a thrown error, with the
\* requests it put on the network.
Returned(v, sent) == [kind |-> "returned", value |-> v, thrown |-> NonError, sent |-> sent]

Threw(e, sent) == [kind |-> "threw", value |-> << >>, thrown |-> e, sent |-> sent]

CorsError ==
  ErrorOf(<<"Connection Blocked (CORS).", "Install a WP CORS plugin">>)

\* Faulty variant of fetchOrders: the reply's content type is not looked at.
fetchOrdersAnyContentType(appHttps, siteHttp, reply) ==
  IF checkMixedContent(appHttps, siteHttp) THEN Threw(MixedContentError, << >>)
  ELSE IF reply.fault # "none" THEN Threw(CorsError, <<"GET">>)
  ELSE IF ~ResponseOk(reply.status)
    THEN Threw(ErrorOf(<<"Server returned status:", Txt(reply.status)>>), <<"GET">>)
  ELSE IF ~reply.parses THEN Threw(ErrorOf(<<"SyntaxError">>), <<"GET">>)
  ELSE Returned([i \in DOMAIN reply.data |-> mapWooCommerceOrder(reply.data[i])], <<"GET">>)

\* fetchOrders(siteUrl, authHeader) against one reply of the remote site.
\* reply.fault is the rejection of fetch() itself ("none": a response arrived).
fetchOrders(appHttps, siteHttp, reply) ==
  IF checkMixedContent(appHttps, siteHttp) THEN Threw(MixedContentError, << >>)
  ELSE IF reply.fault # "none" THEN
    IF reply.fault = "nonError" THEN Threw(NonError, <<"GET">>)
    ELSE IF reply.fault = "Failed to fetch" \/ reply.fault = "NetworkError"
      THEN Threw(CorsError, <<"GET">>)
      ELSE Threw(ErrorOf(<<reply.fault>>), <<"GET">>)
  ELSE IF reply.ctype # "application/json" THEN
    IF reply.doctype
      THEN Threw(ErrorOf(<<"Connection Error:", "The site returned HTML instead of JSON data.",
                           "(Status:", Txt(reply.status), ")">>), <<"GET">>)
      ELSE Threw(ErrorOf(<<"Invalid response received from server", "(Status:",
                           Txt(reply.status), ")">>), <<"GET">>)
  ELSE IF ~ResponseOk(reply.status) THEN
    IF reply.status = 401 \/ reply.status = 403
      THEN Threw(ErrorOf(<<"Authorization failed", Txt(reply.status),
                           "Please check your Username and Application Password.">>), <<"GET">>)
    ELSE IF reply.status = 404
      THEN Threw(ErrorOf(<<"API Endpoint Not Found (404).">>), <<"GET">>)
    ELSE IF reply.parses /\ ~Falsy(reply.message)
      THEN Threw(ErrorOf(<<reply.message>>), <<"GET">>)
      ELSE Threw(ErrorOf(<<"Server returned status:", Txt(reply.status)>>), <<"GET">>)
  ELSE IF ~reply.parses THEN Threw(ErrorOf(<<"SyntaxError">>), <<"GET">>)
  ELSE Returned([i \in DOMAIN reply.data |-> mapWooCommerceOrder(reply.data[i])], <<"GET">>)

\* statusMap of updateOrderStatus: undefined for a status outside the table.
wcStatusOf(status) ==
  CASE status = "Pending"    -> "pending"
    [] status = "Processing" -> "processing"
    [] status = "Shipped"    -> "completed"
    [] status = "Delivered"  -> "completed"
    [] status = "Cancelled"  -> "cancelled"
    [] OTHER                 -> "undefined"

\* updateOrderStatus(orderId, status, siteUrl, authHeader) against one reply.
\* sent holds the status put in the body of the PUT request.
updateOrderStatus(status, appHttps, siteHttp, reply) ==
  LET wcStatus == wcStatusOf(status) IN
  IF checkMixedContent(appHttps, siteHttp) THEN Threw(MixedContentError, << >>)
  ELSE IF reply.fault # "none" THEN
    IF reply.fault = "nonError"
      THEN Threw(ErrorOf(<<"An unexpected error occurred during status update.">>), <<wcStatus>>)
      ELSE Threw(ErrorOf(<<reply.fault>>), <<wcStatus>>)
  ELSE IF ~ResponseOk(reply.status) THEN
    \* the Error carrying errorData.message is thrown inside the inner try and
    \* replaced by the inner catch
    Threw(ErrorOf(<<"Failed to update order status.", "Server returned:",
                    Txt(reply.status)>>), <<wcStatus>>)
  ELSE IF ~reply.parses THEN Threw(ErrorOf(<<"SyntaxError">>), <<wcStatus>>)
  ELSE Returned(<<mapWooCommerceOrder([id |-> reply.data[1].id, status |-> reply.data[1].status])>>,
                <<wcStatus>>)

-----------------------------------------------------------------------------
(* Courier Gateway: services/orderService.ts, latest revision              *)

BookingResult(ok, tid, m) == [success |-> ok, trackingId |-> tid, message |-> m]

\* Faulty variant of CaughtMessage: error.message without the instanceof test.
CaughtMessageUntested(e, fallback) == e.message

\* The message of the failure result built in the catch block.
CaughtMessage(e, fallback) == IF e.isError THEN e.message ELSE fallback

\* Faulty variant of sendToSteadfast: the tracking code of the response is
\* not read, the fallback token is always used.
sendToSteadfastFallbackOnly(orderId, reply) ==
  LET sent == <<"POST steadfast">>
      failed(m) == Returned(BookingResult(FALSE, "", m), sent)
  IN
  IF reply.fault # "none" THEN failed(<<"Failed to connect to Steadfast.">>)
  ELSE IF reply.ctype # "application/json" \/ ~reply.parses \/ ~ResponseOk(reply.status)
    THEN failed(<<"Steadfast API error:", Txt(reply.status)>>)
  ELSE Returned(BookingResult(TRUE, "STDFST-" \o orderId,
                  <<"Successfully booked.", "Tracking:", "STDFST-" \o orderId>>), sent)

\* sendToSteadfast: every path of the try block ends in a return or in the
\* catch block, which returns a failure result.
sendToSteadfast(orderId, reply) ==
  LET sent  == <<"POST steadfast">>
      caught(e) == Returned(BookingResult(FALSE, "",
                      CaughtMessage(e, <<"Failed to connect to Steadfast.">>)), sent)
  IN
  IF reply.fault = "nonError" THEN caught(NonError)
  ELSE IF reply.fault # "none" THEN caught(ErrorOf(<<reply.fault>>))
  ELSE IF reply.ctype = "application/json" THEN
    IF ~reply.parses THEN caught(ErrorOf(<<"SyntaxError">>))
    ELSE IF ~ResponseOk(reply.status) THEN
      caught(ErrorOf(IF ~Falsy(reply.message) THEN <<reply.message>>
                     ELSE <<"Steadfast API error:", Txt(reply.status)>>))
    ELSE
      LET trackingId == IF ~Falsy(reply.tracking) THEN reply.tracking
                        ELSE "STDFST-" \o orderId
      IN Returned(BookingResult(TRUE, trackingId,
                    <<"Successfully booked.", "Tracking:", trackingId>>), sent)
  ELSE caught(ErrorOf(<<"Invalid response from Steadfast", "(status:",
                        Txt(reply.status), ")">>))

\* sendToPathao: the same shape; a rejection reports result.errors first.
sendToPathao(orderId, reply) ==
  LET sent  == <<"POST pathao">>
      caught(e) == Returned(BookingResult(FALSE, "",
                      CaughtMessage(e, <<"Failed to connect to Pathao.">>)), sent)
  IN
  IF reply.fault = "nonError" THEN caught(NonError)
  ELSE IF reply.fault # "none" THEN caught(ErrorOf(<<reply.fault>>))
  ELSE IF reply.ctype = "application/json" THEN
    IF ~reply.parses THEN caught(ErrorOf(<<"SyntaxError">>))
    ELSE IF ~ResponseOk(reply.status) THEN
      caught(ErrorOf(IF reply.errors THEN <<"JSON.stringify(errors)">>
                     ELSE IF ~Falsy(reply.message) THEN <<reply.message>>
                     ELSE <<"Pathao API error">>))
    ELSE
      LET trackingId == IF ~Falsy(reply.tracking) THEN reply.tracking
                        ELSE "PTHO-" \o orderId
      IN Returned(BookingResult(TRUE, trackingId,
                    <<"Successfully booked.", "Tracking:", trackingId>>), sent)
  ELSE caught(ErrorOf(<<"Invalid response from Pathao", "(status:",
                        Txt(reply.status), ")">>))

\* sendToCourier(order, courier, config): the key check, then the courier.
\* config is {apiKey, secretKey} for Steadfast and {apiKey, storeId} for Pathao.
sendToCourier(orderId, courier, config, reply) ==
  IF courier = "Steadfast" THEN
    IF Falsy(config.apiKey) \/ Falsy(config.secretKey)
      THEN Returned(BookingResult(FALSE, "", <<"Keys", "required.">>), << >>)
      ELSE sendToSteadfast(orderId, reply)
  ELSE IF courier = "Pathao" THEN
    IF Falsy(config.apiKey) \/ Falsy(config.storeId)
      THEN Returned(BookingResult(FALSE, "", <<"Keys", "required.">>), << >>)
      ELSE sendToPathao(orderId, reply)
  ELSE Returned(BookingResult(FALSE, "", <<"Service", "not", "configured.">>), << >>)

\* fetchSteadfastHistory and fetchPathaoHistory: the lookup by phone number
\* either finds the customer's parcel counts or throws "not found".
\* reply.fault is "none" when the customer is found.
CustomerHistory == [totalParcels |-> "n"]

fetchSteadfastHistory(reply) ==
  IF reply.fault # "none"
    THEN Threw(ErrorOf(<<"Customer phone not found in Steadfast records.">>),
               <<"steadfast history">>)
    ELSE Returned(CustomerHistory, <<"steadfast history">>)

fetchPathaoHistory(reply) ==
  IF reply.fault # "none"
    THEN Threw(ErrorOf(<<"Customer phone not found in Pathao records.">>),
               <<"pathao history">>)
    ELSE Returned(CustomerHistory, <<"pathao history">>)

\* Faulty variant of fetchCourierCustomerHistory: no test of the keys.
fetchCourierCustomerHistoryUnchecked(courier, config, reply) ==
  IF courier = "Steadfast" THEN fetchSteadfastHistory(reply)
  ELSE IF courier = "Pathao" THEN fetchPathaoHistory(reply)
  ELSE Threw(ErrorOf(<<"History check for", courier, "is not configured.">>), << >>)

\* fetchCourierCustomerHistory(phone, courier, config): the key check throws,
\* then the courier's lookup.
fetchCourierCustomerHistory(courier, config, reply) ==
  IF courier = "Steadfast" THEN
    IF Falsy(config.apiKey) \/ Falsy(config.secretKey)
      THEN Threw(ErrorOf(<<"Steadfast API Key and Secret Key", "are required.">>), << >>)
      ELSE fetchSteadfastHistory(reply)
  ELSE IF courier = "Pathao" THEN
    IF Falsy(config.apiKey)
      THEN Threw(ErrorOf(<<"Pathao Access Token", "is required.">>), << >>)
      ELSE fetchPathaoHistory(reply)
  ELSE Threw(ErrorOf(<<"History check for", courier, "is not configured.">>), << >>)

-----------------------------------------------------------------------------
(* Bounds and input sets                                                   *)

\* Gateway calls the operator starts in one session (the fetch of the page's
\* mount and the calls a continuation makes are not counted).
MaxCalls == 2

\* The orders of the remote store, in the order the store lists them.
OrderIds == <<"A", "B">>

\* The statuses the operator picks in the detail view's status select.
OperatorStatuses == {"Shipped", "Cancelled"}

\* What the operator types in the connection wizard.
SiteUrls == {"https://shop.example"}

AuthHeaders == {"Basic dXNlcjpwYXNz"}

\* The four courier fields as SettingsModal.handleSave stores them
\* ('' for a field left blank).
CourierKeys(sfApi, sfSecret, ptApi, ptStore) ==
  [steadfastApiKey |-> sfApi, steadfastSecretKey |-> sfSecret,
   pathaoApiKey |-> ptApi, pathaoStoreId |-> ptStore]

SettingsInputs ==
  { CourierKeys("sf-key", "sf-secret", "pt-token", "pt-store"),
    CourierKeys("sf-key", "sf-secret", "pt-token", ""),
    CourierKeys("", "", "pt-token", "pt-store") }

\* A reply of a remote service.
Reply(fault, status, ctype, doctype, parses, message, errors, tracking, data) ==
  [fault |-> fault, status |-> status, ctype |-> ctype, doctype |-> doctype,
   parses |-> parses, message |-> message, errors |-> errors,
   tracking |-> tracking, data |-> data]

JsonReply(status, message, tracking, data) ==
  Reply("none", status, "application/json", FALSE, TRUE, message, FALSE, tracking, data)

\* The store's order list as the WooCommerce API returns it.
WcOrders(store) == [i \in DOMAIN OrderIds |-> [id |-> OrderIds[i], status |-> store[OrderIds[i]]]]

HtmlLoginPage == Reply("none", 200, "text/html", TRUE, FALSE, NULL, FALSE, NULL, << >>)

\* Replies the controller's fetch may receive while the store holds `store`.
CtlFetchReplies(store) ==
  { JsonReply(200, NULL, NULL, WcOrders(store)),
    JsonReply(401, "Sorry, you are not allowed to do that.", NULL, << >>),
    HtmlLoginPage }

\* Replies to the controller's status update of order id to wcStatus.
UpdateAccepted(id, wcStatus) == JsonReply(200, NULL, NULL, <<[id |-> id, status |-> wcStatus]>>)

UpdateRejected == JsonReply(500, "Invalid status.", NULL, << >>)

\* Replies of a courier to the controller's booking.
CtlBookingReplies ==
  { JsonReply(200, NULL, "TRK-1", << >>),
    JsonReply(400, "Invalid recipient phone.", NULL, << >>) }

-----------------------------------------------------------------------------
(* Order Lifecycle Controller: App.tsx and components/OrderDetailModal.tsx *)

NoOrder == [id |-> NULL, status |-> NULL, courier |-> NULL, trackingId |-> NULL]

NoKeys == CourierKeys(NULL, NULL, NULL, NULL)

\* An empty localStorage.
ClearedStorage ==
  [isLoggedIn |-> NULL, siteUrl |-> NULL, authHeader |-> NULL,
   steadfastApiKey |-> NULL, steadfastSecretKey |-> NULL,
   pathaoApiKey |-> NULL, pathaoStoreId |-> NULL]

\* The detail view is not mounted.
NoModal ==
  [mounted |-> FALSE, courierStatus |-> "idle", selectedCourier |-> "Steadfast",
   keys |-> NoKeys]

\* The courier-history state of a detail view before its effect has run:
\* << >> stands for null.
NoHistory ==
  [steadfastHistory |-> << >>, isSteadfastHistoryLoading |-> FALSE,
   steadfastHistoryError |-> << >>,
   pathaoHistory |-> << >>, isPathaoHistoryLoading |-> FALSE,
   pathaoHistoryError |-> << >>]

\* A detail view at mount: useState initial values, then the effect that reads
\* the four courier fields from localStorage.
MountedModal(ls) ==
  [mounted |-> TRUE, courierStatus |-> "idle", selectedCourier |-> "Steadfast",
   keys |-> CourierKeys(ls.steadfastApiKey, ls.steadfastSecretKey,
                        ls.pathaoApiKey, ls.pathaoStoreId)]

\* An asynchronous call that has not returned, with what its continuation
\* captured when it was started: the order id and status of the call, and for a
\* booking the courier, its config and whether its detail view is still mounted.
\* canUpdate, canLoad: whether the guards of the handleUpdateStatus and the
\* loadOrders of that render pass.
Call(kind, id, status, courier, config, canUpdate, canLoad, live) ==
  [kind |-> kind, id |-> id, status |-> status, courier |-> courier,
   config |-> config, canUpdate |-> canUpdate, canLoad |-> canLoad, live |-> live]

NoConfig == [apiKey |-> NULL, secretKey |-> NULL, storeId |-> NULL]

FetchCall == Call("fetchOrders", NULL, NULL, NULL, NoConfig, FALSE, FALSE, FALSE)

UpdateCall(id, status, canLoad) ==
  Call("updateOrderStatus", id, status, NULL, NoConfig, FALSE, canLoad, FALSE)

InFlight(kind) == {c \in BagToSet(inflight) : c.kind = kind}

Room == issued < MaxCalls

Start(bag, c) == bag (+) SetToBag({c})

Finish(bag, c) == bag (-) SetToBag({c})

\* The detail view is rendered: {selectedOrder && <OrderDetailModal .../>}
\* below the early return of the Login screen.
DetailShown == isLoggedIn /\ selectedOrder # NoOrder

\* The detail view is a full-screen overlay above the page and its header:
\* while it is shown the page's own controls are out of reach.
PageReachable == isLoggedIn /\ ~DetailShown

\* The order list is on screen.
ListShown == PageReachable /\ isConnected /\ ~isLoading /\ error = << >>

\* loadOrders' guard over the values of one render.
CanLoad(connected, url, auth) == connected /\ ~Falsy(url) /\ ~Falsy(auth)

\* Faulty variant of CanUpdate: no test of the credentials.
CanUpdateAlways(url, auth) == TRUE

\* handleUpdateStatus' guard over the values of one render.
CanUpdate(url, auth) == ~Falsy(url) /\ ~Falsy(auth)

\* Faulty variant of WithStatus: the optimistic change is not applied.
WithStatusUnapplied(list, orderId, status) == list

\* setOrders(prev => prev.map(o => o.id === orderId ? {...o, status} : o))
WithStatus(list, orderId, status) ==
  [i \in DOMAIN list |-> IF list[i].id = orderId
                           THEN [list[i] EXCEPT !.status = status] ELSE list[i]]

\* Faulty variant of WithBooking: the booked order is moved to the head of the
\* list.
WithBookingMovedFirst(list, orderId, courier, trackingId) ==
  LET hit == SelectSeq(list, LAMBDA o : o.id = orderId)
      others == SelectSeq(list, LAMBDA o : o.id # orderId)
  IN [i \in DOMAIN hit |-> [hit[i] EXCEPT !.courier = courier, !.trackingId = trackingId]]
       \o others

\* setOrders(prev => prev.map(o => o.id === orderId ? {...o, courier, trackingId} : o))
WithBooking(list, orderId, courier, trackingId) ==
  [i \in DOMAIN list |-> IF list[i].id = orderId
                           THEN [list[i] EXCEPT !.courier = courier, !.trackingId = trackingId]
                           ELSE list[i]]

\* if (selectedOrder && selectedOrder.id === orderId)
\*   setSelectedOrder(prev => prev ? {...prev, status} : null)
\* closureSelected is the selectedOrder of the render the handler comes from;
\* prev is the state at the time the update is applied.
SelectedWithStatus(prev, closureSelected, orderId, status) ==
  IF closureSelected # NoOrder /\ closureSelected.id = orderId /\ prev # NoOrder
    THEN [prev EXCEPT !.status = status] ELSE prev

\* The same for {...prev, courier, trackingId} in handleOrderBooked.
SelectedWithBooking(prev, closureSelected, orderId, courier, trackingId) ==
  IF closureSelected # NoOrder /\ closureSelected.id = orderId /\ prev # NoOrder
    THEN [prev EXCEPT !.courier = courier, !.trackingId = trackingId] ELSE prev

\* The state loadOrders leaves when called from a render with these values:
\* nothing when its guard fails, otherwise loading, no error, a fetch started.
loadOrders(connected, url, auth, loading, err, bag) ==
  IF ~CanLoad(connected, url, auth)
    THEN [isLoading |-> loading, error |-> err, inflight |-> bag]
    ELSE [isLoading |-> TRUE, error |-> << >>, inflight |-> Start(bag, FetchCall)]

\* The effect on [isLoggedIn, isConnected, loadOrders].
useEffect(loggedIn, connected, url, auth, loading, err, bag) ==
  IF loggedIn /\ connected
    THEN loadOrders(connected, url, auth, loading, err, bag)
    ELSE [isLoading |-> FALSE, error |-> err, inflight |-> bag]

\* Faulty variant of UpdateFailed: the alert without the loadOrders().
UpdateFailedNoReload(canLoad, thrown, loading, err, bag, shown) ==
  [isLoading |-> loading, error |-> err, inflight |-> bag,
   alerts |-> shown \cup {IF thrown.isError THEN thrown.message
                          ELSE <<"Failed to update order status.">>}]

\* Faulty variant of UpdateFailed: the catch block without its alert(msg).
UpdateFailedSilent(canLoad, thrown, loading, err, bag, shown) ==
  LET l == IF canLoad
             THEN [isLoading |-> TRUE, error |-> << >>, inflight |-> Start(bag, FetchCall)]
             ELSE [isLoading |-> loading, error |-> err, inflight |-> bag]
  IN [isLoading |-> l.isLoading, error |-> l.error, inflight |-> l.inflight,
      alerts |-> shown]

\* The catch block of handleUpdateStatus: loadOrders() of the handler's render,
\* then alert(msg).
UpdateFailed(canLoad, thrown, loading, err, bag, shown) ==
  LET l == IF canLoad
             THEN [isLoading |-> TRUE, error |-> << >>, inflight |-> Start(bag, FetchCall)]
             ELSE [isLoading |-> loading, error |-> err, inflight |-> bag]
      msg == IF thrown.isError THEN thrown.message
             ELSE <<"Failed to update order status.">>
  IN [isLoading |-> l.isLoading, error |-> l.error, inflight |-> l.inflight,
      alerts |-> shown \cup {msg}]

\* Faulty variant of FetchSettled: a failed fetch empties the list.
FetchSettledClearing(r, list, err) ==
  IF r.kind = "returned"
    THEN [orders |-> r.value, error |-> err, isLoading |-> FALSE]
    ELSE [orders |-> << >>,
          error |-> IF r.thrown.isError THEN r.thrown.message
                    ELSE <<"Failed to fetch orders.">>,
          isLoading |-> FALSE]

\* The continuation of loadOrders once fetchOrders has settled with result r.
FetchSettled(r, list, err) ==
  IF r.kind = "returned"
    THEN [orders |-> r.value, error |-> err, isLoading |-> FALSE]
    ELSE [orders |-> list,
          error |-> IF r.thrown.isError THEN r.thrown.message
                    ELSE <<"Failed to fetch orders.">>,
          isLoading |-> FALSE]

\* The order list a fetch returns while the store holds `store`.
FreshOrders(store) == fetchOrders(TRUE, FALSE, JsonReply(200, NULL, NULL, WcOrders(store))).value

\* isBooked of the detail view.
isBooked(order) == ~Falsy(order.courier)

\* Faulty variant of isBookingConfigMissing: any missing field blocks.
isBookingConfigMissingAnyField(courier, keys) ==
  \/ Falsy(keys.steadfastApiKey) \/ Falsy(keys.steadfastSecretKey)
  \/ Falsy(keys.pathaoApiKey) \/ Falsy(keys.pathaoStoreId)

\* isBookingConfigMissing of the detail view.
isBookingConfigMissing(courier, keys) ==
  IF courier = "Steadfast"
    THEN Falsy(keys.steadfastApiKey) \/ Falsy(keys.steadfastSecretKey)
    ELSE Falsy(keys.pathaoApiKey) \/ Falsy(keys.pathaoStoreId)

\* courierConfig of handleSendToCourier.
courierConfig(courier, keys) ==
  IF courier = "Steadfast"
    THEN [apiKey |-> keys.steadfastApiKey, secretKey |-> keys.steadfastSecretKey, storeId |-> NULL]
    ELSE [apiKey |-> keys.pathaoApiKey, secretKey |-> NULL, storeId |-> keys.pathaoStoreId]

\* The selectedOrder of the render in which Send was pressed for call c.
ClosureSelected(c) == [id |-> c.id, status |-> c.status, courier |-> NULL, trackingId |-> NULL]

\* The calls in flight after the detail view unmounts: its bookings go on, but
\* their setCourierStatus no longer reaches a mounted view.
Unmounted(bag) ==
  LET detached == {[c EXCEPT !.live = FALSE] : c \in BagToSet(bag)}
  IN [c \in detached |-> CopiesIn(c, bag) + CopiesIn([c EXCEPT !.live = TRUE], bag)]

\* Faulty variant of BookingSettled: onOrderBooked without the onUpdateStatus.
BookingSettledNoAdvance(c, result, list, sel) ==
  IF ~result.success THEN [orders |-> list, selectedOrder |-> sel, update |-> FALSE]
  ELSE [orders |-> WithBooking(list, c.id, c.courier, result.trackingId),
        selectedOrder |-> SelectedWithBooking(sel, ClosureSelected(c), c.id, c.courier,
                                              result.trackingId),
        update |-> FALSE]

\* What the continuation of handleSendToCourier does to the App state when
\* sendToCourier has returned result (a BookingResult) for call c:
\* onOrderBooked, then onUpdateStatus(order.id, Processing) when the order of
\* the handler's render was Pending.
BookingSettled(c, result, list, sel) ==
  IF ~result.success THEN [orders |-> list, selectedOrder |-> sel, update |-> FALSE]
  ELSE
    LET l1 == WithBooking(list, c.id, c.courier, result.trackingId)
        s1 == SelectedWithBooking(sel, ClosureSelected(c), c.id, c.courier, result.trackingId)
    IN IF c.status = "Pending" /\ c.canUpdate
         THEN [orders |-> WithStatus(l1, c.id, "Processing"),
               selectedOrder |-> SelectedWithStatus(s1, ClosureSelected(c), c.id, "Processing"),
               update |-> TRUE]
         ELSE [orders |-> l1, selectedOrder |-> s1, update |-> FALSE]

-----------------------------------------------------------------------------
(* The controller's state machine                                           *)

\* No status change has been requested since the list was last replaced.
NoUpdates == [id \in {OrderIds[i] : i \in DOMAIN OrderIds} |->
                [requested |-> NULL, answered |-> NULL]]

\* handleUpdateStatus has applied status to the order id.
Requested(u, id, status) == [u EXCEPT ![id].requested = status]

\* The updateOrderStatus call that sent status for the order id has settled.
Answered(u, id, status) == [u EXCEPT ![id].answered = status]

\* No gateway function is being exercised on its own.
GwIdle == [fn |-> "none"]

\* The remote store before the operator acts: the first order in a status
\* outside the table of mapWooCommerceOrder, the second one processing.
InitialStore == [id \in {OrderIds[i] : i \in DOMAIN OrderIds} |->
                   IF id = OrderIds[1] THEN "checkout-draft" ELSE "processing"]

\* What localStorage may hold when the page is opened: nothing; a session
\* saved by the connection wizard and the settings form; a session saved
\* without an authHeader entry.
StoredSessions ==
  { ClearedStorage,
    [isLoggedIn |-> "true", siteUrl |-> "https://shop.example",
     authHeader |-> "Basic dXNlcjpwYXNz",
     steadfastApiKey |-> "sf-key", steadfastSecretKey |-> "sf-secret",
     pathaoApiKey |-> "pt-token", pathaoStoreId |-> "pt-store"],
    [ClearedStorage EXCEPT !.isLoggedIn = "true", !.siteUrl = "https://shop.example"] }

\* useState initialisers of App, then its effect at mount.
Init ==
  \E ls \in StoredSessions :
    LET e == useEffect(~Falsy(ls.isLoggedIn), ~Falsy(ls.siteUrl), ls.siteUrl,
                       ls.authHeader, TRUE, << >>, EmptyBag)
    IN /\ localStorage = ls
       /\ isLoggedIn = ~Falsy(ls.isLoggedIn)
       /\ isConnected = ~Falsy(ls.siteUrl)
       /\ siteUrl = ls.siteUrl
       /\ authHeader = ls.authHeader
       /\ orders = << >>
       /\ selectedOrder = NoOrder
       /\ isLoading = e.isLoading
       /\ error = e.error
       /\ inflight = e.inflight
       /\ modal = NoModal
       /\ remote = InitialStore
       /\ alerts = {}
       /\ booked = {}
       /\ resync = "idle"
       /\ issued = 0
       /\ updates = NoUpdates
       /\ history = NoHistory
       /\ gw = GwIdle

\* Login.onLogin
handleLogin ==
  /\ ~isLoggedIn
  /\ LET e == useEffect(TRUE, isConnected, siteUrl, authHeader, isLoading, error, inflight)
     IN /\ e.inflight # inflight => Room
        /\ issued' = IF e.inflight # inflight THEN issued + 1 ELSE issued
        /\ isLoggedIn' = TRUE
        /\ localStorage' = [localStorage EXCEPT !.isLoggedIn = "true"]
        /\ isLoading' = e.isLoading
        /\ error' = e.error
        /\ inflight' = e.inflight
  /\ UNCHANGED <<gw, history, updates, orders, selectedOrder, isConnected, siteUrl, authHeader,
                 modal, remote, alerts, booked, resync>>

\* Faulty variant of handleLogout: removeItem for the session entries only,
\* the courier keys stay in the store.
handleLogoutKeepingKeys ==
  /\ PageReachable
  /\ isLoggedIn' = FALSE
  /\ isConnected' = FALSE
  /\ siteUrl' = NULL
  /\ authHeader' = NULL
  /\ orders' = << >>
  /\ localStorage' = [localStorage EXCEPT !.isLoggedIn = NULL, !.siteUrl = NULL,
                                          !.authHeader = NULL]
  /\ isLoading' = FALSE
  /\ resync' = "idle"
  /\ updates' = NoUpdates
  /\ UNCHANGED <<gw, history, issued, selectedOrder, error, modal, inflight, remote, alerts, booked>>

\* The header's Logout button.
handleLogout ==
  /\ PageReachable
  /\ isLoggedIn' = FALSE
  /\ isConnected' = FALSE
  /\ siteUrl' = NULL
  /\ authHeader' = NULL
  /\ orders' = << >>
  /\ localStorage' = ClearedStorage
  /\ isLoading' = FALSE
  /\ resync' = "idle"
  /\ updates' = NoUpdates
  /\ UNCHANGED <<gw, history, issued, selectedOrder, error, modal, inflight, remote, alerts, booked>>

\* ConnectionWizard.onConnect, from the wizard shown while not connected or
\* reopened with "Re-enter Credentials" on the error screen.
handleConnect(url, header) ==
  /\ PageReachable
  /\ ~isConnected \/ (~isLoading /\ error # << >>)
  /\ LET changed == ~isConnected \/ url # siteUrl \/ header # authHeader
         e == IF changed
                THEN useEffect(isLoggedIn, TRUE, url, header, isLoading, error, inflight)
                ELSE [isLoading |-> isLoading, error |-> error, inflight |-> inflight]
     IN /\ e.inflight # inflight => Room
        /\ issued' = IF e.inflight # inflight THEN issued + 1 ELSE issued
        /\ siteUrl' = url
        /\ authHeader' = header
        /\ isConnected' = TRUE
        /\ localStorage' = [localStorage EXCEPT !.siteUrl = url, !.authHeader = header]
        /\ isLoading' = e.isLoading
        /\ error' = e.error
        /\ inflight' = e.inflight
  /\ UNCHANGED <<gw, history, updates, orders, selectedOrder, isLoggedIn, modal, remote, alerts,
                 booked, resync>>

\* The header's refresh button and the error screen's Retry: loadOrders().
Refresh ==
  /\ PageReachable
  /\ isConnected
  /\ Room
  /\ LET l == loadOrders(isConnected, siteUrl, authHeader, isLoading, error, inflight)
     IN /\ isLoading' = l.isLoading
        /\ error' = l.error
        /\ inflight' = l.inflight
        /\ issued' = IF l.inflight # inflight THEN issued + 1 ELSE issued
  /\ UNCHANGED <<gw, history, updates, orders, selectedOrder, isLoggedIn, isConnected, siteUrl,
                 authHeader, localStorage, modal, remote, alerts, booked, resync>>

\* fetchOrders settles and loadOrders runs to its end.
FetchReturns(reply) ==
  /\ FetchCall \in BagToSet(inflight)
  /\ LET r == fetchOrders(TRUE, FALSE, reply)
         f == FetchSettled(r, orders, error)
     IN /\ orders' = f.orders
        /\ error' = f.error
        /\ isLoading' = f.isLoading
        /\ resync' = IF r.kind = "returned" THEN resync ELSE "idle"
        /\ updates' = IF r.kind = "returned" THEN NoUpdates ELSE updates
  /\ inflight' = Finish(inflight, FetchCall)
  /\ UNCHANGED <<gw, history, issued, selectedOrder, isLoggedIn, isConnected, siteUrl, authHeader,
                 localStorage, modal, remote, alerts, booked>>

\* OrderList.onViewDetails: the detail view mounts for the i-th listed order.
handleSelectOrder(i) ==
  /\ ListShown
  /\ i \in DOMAIN orders
  /\ selectedOrder' = orders[i]
  /\ modal' = MountedModal(localStorage)
  /\ UNCHANGED <<gw, history, updates, issued, orders, isLoading, error, isLoggedIn, isConnected, siteUrl,
                 authHeader, localStorage, inflight, remote, alerts, booked, resync>>

\* The detail view's close button.
handleCloseModal ==
  /\ DetailShown
  /\ selectedOrder' = NoOrder
  /\ modal' = NoModal
  /\ inflight' = Unmounted(inflight)
  /\ UNCHANGED <<gw, history, updates, issued, orders, isLoading, error, isLoggedIn, isConnected, siteUrl,
                 authHeader, localStorage, remote, alerts, booked, resync>>

\* SettingsModal.handleSave
handleSave(keys) ==
  /\ PageReachable
  /\ localStorage' = [localStorage EXCEPT
                        !.steadfastApiKey = keys.steadfastApiKey,
                        !.steadfastSecretKey = keys.steadfastSecretKey,
                        !.pathaoApiKey = keys.pathaoApiKey,
                        !.pathaoStoreId = keys.pathaoStoreId]
  /\ UNCHANGED <<gw, history, updates, issued, orders, selectedOrder, isLoading, error, isLoggedIn,
                 isConnected, siteUrl, authHeader, modal, inflight, remote,
                 alerts, booked, resync>>

\* The detail view's courier select.
setSelectedCourier(courier) ==
  /\ DetailShown
  /\ ~isBooked(selectedOrder)
  /\ modal.courierStatus # "sending"
  /\ courier # modal.selectedCourier
  /\ modal' = [modal EXCEPT !.selectedCourier = courier]
  /\ UNCHANGED <<gw, history, updates, issued, orders, selectedOrder, isLoading, error, isLoggedIn,
                 isConnected, siteUrl, authHeader, localStorage, inflight,
                 remote, alerts, booked, resync>>

\* The detail view's status select: handleUpdateStatus(order.id, status) up to
\* its await.
handleUpdateStatus(status) ==
  /\ DetailShown
  /\ status # selectedOrder.status
  /\ IF CanUpdate(siteUrl, authHeader)
       THEN /\ Room
            /\ orders' = WithStatus(orders, selectedOrder.id, status)
            /\ selectedOrder' = SelectedWithStatus(selectedOrder, selectedOrder,
                                                   selectedOrder.id, status)
            /\ inflight' = Start(inflight,
                                 UpdateCall(selectedOrder.id, status,
                                            CanLoad(isConnected, siteUrl, authHeader)))
            /\ resync' = "idle"
            /\ issued' = issued + 1
            /\ updates' = Requested(updates, selectedOrder.id, status)
       ELSE UNCHANGED <<orders, selectedOrder, inflight, resync, issued, updates>>
  /\ UNCHANGED <<gw, history, isLoading, error, isLoggedIn, isConnected, siteUrl,
                 authHeader, localStorage, modal, remote, alerts, booked>>

\* updateOrderStatus settles for call c: on success the store holds the status
\* that was sent; on failure the catch block of handleUpdateStatus runs.
UpdateReturns(c, reply) ==
  /\ c \in InFlight("updateOrderStatus")
  /\ LET r == updateOrderStatus(c.status, TRUE, FALSE, reply)
     IN IF r.kind = "returned"
          THEN /\ remote' = [remote EXCEPT ![c.id] = r.sent[1]]
               /\ inflight' = Finish(inflight, c)
               /\ resync' = "idle"
               /\ UNCHANGED <<isLoading, error, alerts>>
          ELSE LET f == UpdateFailed(c.canLoad, r.thrown, isLoading, error,
                                     Finish(inflight, c), alerts)
               IN /\ isLoading' = f.isLoading
                  /\ error' = f.error
                  /\ inflight' = f.inflight
                  /\ alerts' = f.alerts
                  /\ resync' = IF c.canLoad THEN "owed" ELSE "idle"
                  /\ UNCHANGED remote
  /\ updates' = Answered(updates, c.id, c.status)
  /\ UNCHANGED <<gw, history, issued, orders, selectedOrder, isLoggedIn, isConnected, siteUrl,
                 authHeader, localStorage, modal, booked>>

\* The detail view's Send button: handleSendToCourier up to its await.
handleSendToCourier ==
  /\ DetailShown
  /\ ~isBooked(selectedOrder)
  /\ modal.courierStatus # "sending"
  /\ ~isBookingConfigMissing(modal.selectedCourier, modal.keys)
  /\ Room
  /\ modal' = [modal EXCEPT !.courierStatus = "sending"]
  /\ issued' = issued + 1
  /\ inflight' = Start(inflight,
                       Call("sendToCourier", selectedOrder.id, selectedOrder.status,
                            modal.selectedCourier,
                            courierConfig(modal.selectedCourier, modal.keys),
                            CanUpdate(siteUrl, authHeader),
                            CanLoad(isConnected, siteUrl, authHeader), TRUE))
  /\ UNCHANGED <<gw, history, updates, orders, selectedOrder, isLoading, error, isLoggedIn,
                 isConnected, siteUrl, authHeader, localStorage, remote, alerts,
                 booked, resync>>

\* sendToCourier settles for call c and handleSendToCourier runs to its end.
BookingReturns(c, reply) ==
  /\ c \in InFlight("sendToCourier")
  /\ LET r == sendToCourier(c.id, c.courier, c.config, reply)
         ok == r.kind = "returned" /\ r.value.success
         b == IF r.kind = "returned"
                THEN BookingSettled(c, r.value, orders, selectedOrder)
                ELSE [orders |-> orders, selectedOrder |-> selectedOrder, update |-> FALSE]
     IN /\ modal' = IF c.live
                      THEN [modal EXCEPT !.courierStatus = IF ok THEN "sent" ELSE "error"]
                      ELSE modal
        /\ orders' = b.orders
        /\ selectedOrder' = b.selectedOrder
        /\ inflight' = IF b.update
                         THEN Start(Finish(inflight, c), UpdateCall(c.id, "Processing", c.canLoad))
                         ELSE Finish(inflight, c)
        /\ booked' = IF ok THEN booked \cup {c.id} ELSE booked
        /\ resync' = IF ok THEN "idle" ELSE resync
        /\ updates' = IF b.update THEN Requested(updates, c.id, "Processing") ELSE updates
  /\ UNCHANGED <<gw, history, issued, isLoading, error, isLoggedIn, isConnected, siteUrl,
                 authHeader, localStorage, remote, alerts>>

Next ==
  \/ handleLogin
  \/ handleLogout
  \/ \E url \in SiteUrls, header \in AuthHeaders : handleConnect(url, header)
  \/ Refresh
  \/ \E reply \in CtlFetchReplies(remote) : FetchReturns(reply)
  \/ \E i \in DOMAIN OrderIds : handleSelectOrder(i)
  \/ handleCloseModal
  \/ \E keys \in SettingsInputs : handleSave(keys)
  \/ \E courier \in Courier : setSelectedCourier(courier)
  \/ \E status \in OperatorStatuses : handleUpdateStatus(status)
  \/ \E c \in InFlight("updateOrderStatus") :
       \E reply \in {UpdateAccepted(c.id, wcStatusOf(c.status)), UpdateRejected} :
         UpdateReturns(c, reply)
  \/ handleSendToCourier
  \/ \E c \in InFlight("sendToCourier") :
       \E reply \in CtlBookingReplies : BookingReturns(c, reply)

Spec == Init /\ [][Next]_vars

-----------------------------------------------------------------------------
(* The gateway functions on their own: one call per step                    *)

\* Remote status strings: the table of mapWooCommerceOrder and one outside it.
RemoteStatuses ==
  {"pending", "processing", "on-hold", "completed", "cancelled", "refunded",
   "failed", "trash"}

HttpStatuses == {200, 401, 403, 404, 500}

\* Rejections of fetch(): messages of a TypeError, or a value that is no Error.
TransportFaults == {"Failed to fetch", "NetworkError", "Load failed", "nonError"}

NoReply(fault) == Reply(fault, 0, NULL, FALSE, FALSE, NULL, FALSE, NULL, << >>)

\* Replies without a JSON content type: an HTML page, some other text, or no
\* content-type header at all.
NonJsonReplies ==
  { Reply("none", st, ct, dt, FALSE, NULL, FALSE, NULL, << >>) :
      st \in HttpStatuses, ct \in {"text/html", NULL}, dt \in BOOLEAN }

\* Non-OK replies with a JSON content type, with or without a parsable body
\* and a message in it.
JsonErrorReplies ==
  { Reply("none", st, "application/json", FALSE, p, m, e, NULL, << >>) :
      st \in HttpStatuses \ {200}, p \in BOOLEAN,
      m \in {NULL, "Sorry, you are not allowed to do that."}, e \in BOOLEAN }

FetchReplies ==
  {NoReply(f) : f \in TransportFaults}
    \cup NonJsonReplies
    \cup {r \in JsonErrorReplies : ~r.errors}
    \cup {JsonReply(200, NULL, NULL, <<[id |-> "A", status |-> st]>>) : st \in RemoteStatuses}
    \cup {JsonReply(200, NULL, NULL, << >>),
          Reply("none", 200, "application/json", FALSE, FALSE, NULL, FALSE, NULL, << >>)}

UpdateReplies ==
  {NoReply(f) : f \in {"Failed to fetch", "nonError"}}
    \cup {r \in JsonErrorReplies : ~r.errors /\ r.status = 500}
    \cup {JsonReply(200, NULL, NULL, <<[id |-> "A", status |-> st]>>) :
            st \in {"pending", "processing", "completed", "cancelled"}}

BookingReplies ==
  {NoReply(f) : f \in {"Failed to fetch", "nonError"}}
    \cup {r \in NonJsonReplies : r.status \in {200, 500} /\ r.ctype = "text/html" /\ r.doctype}
    \cup {r \in JsonErrorReplies : r.status = 500 /\ (r.errors => r.parses)}
    \cup {JsonReply(200, NULL, t, << >>) : t \in {NULL, "", "TRK-1"}}
    \cup {Reply("none", 200, "application/json", FALSE, FALSE, NULL, FALSE, NULL, << >>)}

\* A local status outside the OrderStatus enum, as an untyped caller may pass.
Statuses == OrderStatus \cup {"Refunded"}

\* A courier outside the Courier enum.
Couriers == Courier \cup {"RedX"}

CourierConfigs ==
  { [apiKey |-> a, secretKey |-> k, storeId |-> t] :
      a \in {NULL, "key"}, k \in {NULL, "", "secret"}, t \in {NULL, "store"} }

GwCall(fn, orderId, status, courier, config, appHttps, siteHttp, reply, result) ==
  [fn |-> fn, orderId |-> orderId, status |-> status, courier |-> courier, config |-> config,
   appHttps |-> appHttps, siteHttp |-> siteHttp, reply |-> reply, result |-> result]

GwInit ==
  /\ gw = GwIdle
  /\ orders = << >>
  /\ selectedOrder = NoOrder
  /\ isLoading = FALSE
  /\ error = << >>
  /\ isLoggedIn = FALSE
  /\ isConnected = FALSE
  /\ siteUrl = NULL
  /\ authHeader = NULL
  /\ localStorage = ClearedStorage
  /\ modal = NoModal
  /\ inflight = EmptyBag
  /\ remote = InitialStore
  /\ alerts = {}
  /\ booked = {}
  /\ resync = "idle"
  /\ issued = 0
  /\ updates = NoUpdates
  /\ history = NoHistory

CallFetchOrders(appHttps, siteHttp, reply) ==
  /\ gw' = GwCall("fetchOrders", NULL, NULL, NULL, NoConfig, appHttps, siteHttp, reply,
                  fetchOrders(appHttps, siteHttp, reply))
  /\ UNCHANGED ctlVars

CallUpdateOrderStatus(status, appHttps, siteHttp, reply) ==
  /\ gw' = GwCall("updateOrderStatus", NULL, status, NULL, NoConfig, appHttps, siteHttp, reply,
                  updateOrderStatus(status, appHttps, siteHttp, reply))
  /\ UNCHANGED ctlVars

CallSendToCourier(orderId, courier, config, reply) ==
  /\ gw' = GwCall("sendToCourier", orderId, NULL, courier, config, FALSE, FALSE, reply,
                  sendToCourier(orderId, courier, config, reply))
  /\ UNCHANGED ctlVars

\* Outcomes of a courier's history lookup: found, or phone not found.
HistoryReplies == {JsonReply(200, NULL, NULL, << >>), NoReply("Customer phone not found")}

CallFetchCourierCustomerHistory(courier, config, reply) ==
  /\ gw' = GwCall("fetchCourierCustomerHistory", NULL, NULL, courier, config, FALSE, FALSE,
                  reply, fetchCourierCustomerHistory(courier, config, reply))
  /\ UNCHANGED ctlVars

GwNext ==
  \/ \E appHttps \in BOOLEAN, siteHttp \in BOOLEAN, reply \in FetchReplies :
       CallFetchOrders(appHttps, siteHttp, reply)
  \/ \E status \in Statuses, appHttps \in BOOLEAN, siteHttp \in BOOLEAN, reply \in UpdateReplies :
       CallUpdateOrderStatus(status, appHttps, siteHttp, reply)
  \/ \E i \in DOMAIN OrderIds, courier \in Couriers, config \in CourierConfigs,
          reply \in BookingReplies :
       CallSendToCourier(OrderIds[i], courier, config, reply)
  \/ \E courier \in Couriers, config \in CourierConfigs, reply \in HistoryReplies :
       CallFetchCourierCustomerHistory(courier, config, reply)

GatewaySpec == GwInit /\ [][GwNext]_vars

-----------------------------------------------------------------------------
(* Properties of the controller (Spec)                                      *)

Listed(id) == {i \in DOMAIN orders : orders[i].id = id}

\* An order record carries booking data.
Carries(o) == o # NoOrder /\ (~Falsy(o.courier) \/ ~Falsy(o.trackingId))

\* The result of the booking call c against reply.
BookingOf(c, reply) == sendToCourier(c.id, c.courier, c.config, reply)

\* C1: rollback-by-refetch. After the remote call of a status update has
\* failed, once no fetch is outstanding any more (the resynchronising fetch has
\* returned its result and nothing else has touched the list or the store
\* since), the order list equals the result of a fresh fetchOrders.
RollbackByRefetch ==
  (resync = "owed" /\ InFlight("fetchOrders") = {}) => orders = FreshOrders(remote)

\* A failed update has been rolled back: its alert was shown, the refetch has
\* returned and the list shows the store's statuses again.
RolledBack ==
  /\ resync = "owed"
  /\ InFlight("fetchOrders") = {}
  /\ alerts # {}
  /\ isLoggedIn
  /\ orders = FreshOrders(remote)
  /\ selectedOrder # NoOrder

\* C2: booking is one-way. An order of the list that has a courier and a
\* tracking id keeps both, unchanged, in every later list that holds the order.
BookingOneWay ==
  [][\A i \in DOMAIN orders : \A j \in DOMAIN orders' :
       (Carries(orders[i]) /\ orders'[j].id = orders[i].id)
         => /\ orders'[j].courier = orders[i].courier
            /\ orders'[j].trackingId = orders[i].trackingId]_vars

\* C3: an order of the controller's state (a list entry or the selected order)
\* carries a courier or tracking id only if a sendToCourier call for that order
\* returned success:true, and a booking that fails changes neither the list nor
\* the selected order.
BookedOnlyAfterSuccess ==
  /\ [](/\ \A i \in DOMAIN orders : Carries(orders[i]) => orders[i].id \in booked
        /\ Carries(selectedOrder) => selectedOrder.id \in booked)
  /\ [][\A c \in InFlight("sendToCourier") : \A reply \in CtlBookingReplies :
          (BookingReturns(c, reply) /\ ~BookingOf(c, reply).value.success)
            => (orders' = orders /\ selectedOrder' = selectedOrder)]_vars

NonJson(reply) == reply.fault = "none" /\ reply.ctype # "application/json"

\* The messages of fetchOrders' malformed-response errors.
IsMalformed(r) ==
  /\ r.kind = "threw"
  /\ r.thrown.isError
  /\ \/ Includes(r.thrown.message, <<"Connection Error:", "The site returned HTML instead of JSON data.">>)
     \/ Includes(r.thrown.message, <<"Invalid response received from server">>)

\* C9: a fetch that receives a reply without a JSON content type ends with a
\* malformed-response error, returns no order list, and the controller keeps
\* the list it had and shows that error.
NonJsonKeepsOrders ==
  [][\A reply \in CtlFetchReplies(remote) :
       (FetchReturns(reply) /\ NonJson(reply))
         => /\ IsMalformed(fetchOrders(TRUE, FALSE, reply))
            /\ orders' = orders
            /\ error' = fetchOrders(TRUE, FALSE, reply).thrown.message]_vars

\* A loaded list kept under a malformed-response error.
ListKeptUnderMalformed ==
  /\ orders # << >>
  /\ ~isLoading
  /\ Includes(error, <<"Connection Error:", "The site returned HTML instead of JSON data.">>)

-----------------------------------------------------------------------------
(* Properties of the gateway functions (GatewaySpec)                        *)

\* The message of the error a call threw (<< >> when it threw no Error).
ThrownMessage(r) == IF r.kind = "threw" /\ r.thrown.isError THEN r.thrown.message ELSE << >>

\* The remote value each local status is to be sent as.
ReverseTable ==
  [Pending |-> "pending", Processing |-> "processing", Shipped |-> "completed",
   Delivered |-> "completed", Cancelled |-> "cancelled"]

\* C5: updateOrderStatus puts exactly the mapped remote value on the network
\* for a local status of the reverse table, and for any other status it throws
\* an unknown-status error without putting anything on the network.
UpdateSendsMappedOrRefuses ==
  gw.fn = "updateOrderStatus" =>
    IF gw.status \in DOMAIN ReverseTable
      THEN gw.result.sent \in {<< >>, <<ReverseTable[gw.status]>>}
           /\ (~checkMixedContent(gw.appHttps, gw.siteHttp) => gw.result.sent # << >>)
      ELSE /\ gw.result.kind = "threw"
           /\ gw.result.sent = << >>
           /\ Includes(ThrownMessage(gw.result), <<"Unknown status mapping">>)

\* The outcomes of a booking that are failures: missing keys, unknown courier,
\* transport exception, non-JSON reply, body that fails to parse, non-OK reply.
BookingFails(courier, config, reply) ==
  \/ courier \notin Courier
  \/ courier = "Steadfast" /\ (Falsy(config.apiKey) \/ Falsy(config.secretKey))
  \/ courier = "Pathao" /\ (Falsy(config.apiKey) \/ Falsy(config.storeId))
  \/ reply.fault # "none"
  \/ reply.ctype # "application/json"
  \/ ~reply.parses
  \/ ~ResponseOk(reply.status)

\* C6: sendToCourier never raises: every outcome is a returned tagged result,
\* every failure outcome has success:false, and every success:false result
\* has trackingId '' and a non-empty message.
CourierNeverRaises ==
  gw.fn = "sendToCourier" =>
    /\ gw.result.kind = "returned"
    /\ BookingFails(gw.courier, gw.config, gw.reply) <=> ~gw.result.value.success
    /\ ~gw.result.value.success =>
         (gw.result.value.trackingId = "" /\ gw.result.value.message # << >>)

\* A transport rejection with a value that is no Error, normalised into a
\* failure result with the courier's fallback message.
NonErrorNormalised ==
  /\ gw.fn = "sendToCourier"
  /\ gw.reply.fault = "nonError"
  /\ gw.result.kind = "returned"
  /\ ~gw.result.value.success
  /\ gw.result.value.message = <<"Failed to connect to Pathao.">>

\* C7: sendToCourier for Steadfast with an api key and no secret key puts
\* nothing on the network and returns success:false with a message that names
\* the secret key.
SteadfastGateNamesField ==
  (/\ gw.fn = "sendToCourier"
   /\ gw.courier = "Steadfast"
   /\ ~Falsy(gw.config.apiKey)
   /\ Falsy(gw.config.secretKey))
    => /\ gw.result.kind = "returned"
       /\ gw.result.sent = << >>
       /\ ~gw.result.value.success
       /\ \E i \in DOMAIN gw.result.value.message :
            gw.result.value.message[i] \in {"Secret Key", "secretKey", "Secret"}

\* The failure classes of fetchOrders by their messages.
IsAuthFailure(r) == Includes(ThrownMessage(r), <<"Authorization failed">>)

IsNotFound(r) == Includes(ThrownMessage(r), <<"API Endpoint Not Found (404).">>)

IsNetworkFailure(r, fault) ==
  r.kind = "threw" /\ (r.thrown = CorsError \/ r.thrown = NonError \/ r.thrown = ErrorOf(<<fault>>))

IsServerError(r) ==
  /\ r.kind = "threw"
  /\ r.thrown.isError
  /\ ~IsAuthFailure(r) /\ ~IsNotFound(r) /\ ~IsMalformed(r)
  /\ r.thrown # CorsError /\ r.thrown # MixedContentError

\* C8: fetchOrders keeps the failure classes apart: a 401 or 403 reply is an
\* authentication failure, a 404 reply endpoint-not-found, a rejected
\* transport a network failure, any other reply without a JSON content type a
\* malformed response, and any other non-OK reply a server error.
FailureClassesDistinct ==
  (gw.fn = "fetchOrders" /\ ~checkMixedContent(gw.appHttps, gw.siteHttp)) =>
    LET reply == gw.reply
        r == gw.result
    IN IF reply.fault # "none" THEN IsNetworkFailure(r, reply.fault)
       ELSE IF reply.status \in {401, 403} THEN IsAuthFailure(r)
       ELSE IF reply.status = 404 THEN IsNotFound(r)
       ELSE IF NonJson(reply) THEN IsMalformed(r)
       ELSE IF ~ResponseOk(reply.status) THEN IsServerError(r)
       ELSE TRUE

\* The local status each remote status of the fixed table is to be read as.
ForwardTable ==
  [t \in {"pending", "processing", "on-hold", "completed", "cancelled", "refunded", "failed"} |->
     CASE t = "pending"    -> "Pending"
       [] t = "processing" -> "Processing"
       [] t = "on-hold"    -> "Pending"
       [] t = "completed"  -> "Delivered"
       [] t = "cancelled"  -> "Cancelled"
       [] t = "refunded"   -> "Cancelled"
       [] t = "failed"     -> "Cancelled"]

\* C10: for every remote status of the fixed table, the order fetchOrders
\* returns has the local status the table gives.
RemoteStatusTable ==
  (gw.fn = "fetchOrders" /\ gw.result.kind = "returned") =>
    /\ Len(gw.result.value) = Len(gw.reply.data)
    /\ \A i \in DOMAIN gw.reply.data :
         gw.reply.data[i].status \in DOMAIN ForwardTable
           => gw.result.value[i].status = ForwardTable[gw.reply.data[i].status]

\* An on-hold order of the store fetched as Pending.
OnHoldFetched ==
  /\ gw.fn = "fetchOrders"
  /\ gw.result.kind = "returned"
  /\ gw.reply.data # << >>
  /\ gw.reply.data[1].status = "on-hold"
  /\ gw.result.value[1].status = "Pending"

\* The fallback tracking token of a courier for an order id.
FallbackToken(courier, orderId) ==
  IF courier = "Steadfast" THEN "STDFST-" \o orderId ELSE "PTHO-" \o orderId

\* C11: the tracking id of a successful booking is the one of the remote
\* response when the response holds one, and otherwise the fallback token
\* STDFST-<id> (Steadfast) or PTHO-<id> (Pathao).
TrackingFromResponseOrFallback ==
  (gw.fn = "sendToCourier" /\ gw.result.kind = "returned" /\ gw.result.value.success) =>
    gw.result.value.trackingId =
      IF gw.reply.tracking \notin {NULL, ""} THEN gw.reply.tracking
      ELSE FallbackToken(gw.courier, gw.orderId)

\* Both cases of a Steadfast booking: the code of the response, or the token.
TrackingTaken ==
  /\ gw.fn = "sendToCourier"
  /\ gw.courier = "Steadfast"
  /\ gw.orderId = "B"
  /\ gw.result.value.success
  /\ gw.reply.tracking = "TRK-1"
  /\ gw.result.value.trackingId = "TRK-1"

-----------------------------------------------------------------------------
(* Further properties of the controller (Spec)                              *)

\* The number of calls of one kind in a bag of calls.
KindCount(bag, kind) ==
  BagCardinality([c \in {x \in BagToSet(bag) : x.kind = kind} |-> CopiesIn(c, bag)])

\* A step starts a call of the Order Gateway.
StartsOrderCall ==
  \E kind \in {"fetchOrders", "updateOrderStatus"} :
    KindCount(inflight', kind) > KindCount(inflight, kind)

\* C12: no fetchOrders or updateOrderStatus call is started while the
\* controller holds no site URL or no auth credential.
CredentialsBeforeOrderCalls ==
  [][StartsOrderCall => (~Falsy(siteUrl') /\ ~Falsy(authHeader'))]_vars

\* C13: when the fetch of loadOrders fails, the controller sets an error,
\* clears the loading flag, keeps the order list and starts no call; an error
\* that is set is cleared only by a step that starts a fetch.
FetchFailureHandled ==
  [][/\ \A reply \in CtlFetchReplies(remote) :
          (FetchReturns(reply) /\ fetchOrders(TRUE, FALSE, reply).kind = "threw")
            => /\ error' # << >>
               /\ ~isLoading'
               /\ orders' = orders
               /\ inflight' = Finish(inflight, FetchCall)
     /\ (error # << >> /\ error' = << >>)
          => KindCount(inflight', "fetchOrders") > KindCount(inflight, "fetchOrders")]_vars

\* A loaded list kept under an authorization error, with nothing in flight.
AuthErrorShown ==
  /\ Includes(error, <<"Authorization failed">>)
  /\ ~isLoading
  /\ orders # << >>
  /\ inflight = EmptyBag
  /\ isLoggedIn

-----------------------------------------------------------------------------
(* Further properties of the gateway functions (GatewaySpec)                *)

\* The keys the history lookup of a courier requires are absent.
HistoryKeysAbsent(courier, config) ==
  \/ courier = "Steadfast" /\ (Falsy(config.apiKey) \/ Falsy(config.secretKey))
  \/ courier = "Pathao" /\ Falsy(config.apiKey)

\* The configuration errors of fetchCourierCustomerHistory by their messages.
IsConfigError(r) ==
  \E i \in DOMAIN ThrownMessage(r) : ThrownMessage(r)[i] \in {"are required.", "is required."}

\* C14: fetchCourierCustomerHistory throws a configuration error without
\* calling the courier when the keys the selected courier requires are absent,
\* and with the keys present it calls the courier and whatever error the
\* courier reports is not a configuration error.
HistoryConfigError ==
  (gw.fn = "fetchCourierCustomerHistory" /\ gw.courier \in Courier) =>
    IF HistoryKeysAbsent(gw.courier, gw.config)
      THEN gw.result.kind = "threw" /\ gw.result.sent = << >> /\ IsConfigError(gw.result)
      ELSE gw.result.sent # << >> /\ ~IsConfigError(gw.result)

\* A Pathao lookup refused for its missing access token although a store id
\* is present.
PathaoTokenMissing ==
  /\ gw.fn = "fetchCourierCustomerHistory"
  /\ gw.courier = "Pathao"
  /\ Falsy(gw.config.apiKey)
  /\ ~Falsy(gw.config.storeId)
  /\ gw.result.sent = << >>
  /\ ThrownMessage(gw.result) = <<"Pathao Access Token", "is required.">>

\* C16: every order the controller holds, in the list or as the selected
\* order, has a status of the enumeration Pending, Processing, Shipped,
\* Delivered, Cancelled, whatever status string the store returned for it.
StatusInEnumeration ==
  /\ \A i \in DOMAIN orders :
       orders[i].status \in {"Pending", "Processing", "Shipped", "Delivered", "Cancelled"}
  /\ selectedOrder # NoOrder =>
       selectedOrder.status \in {"Pending", "Processing", "Shipped", "Delivered", "Cancelled"}

\* An order the store holds in a status outside the table, selected as Pending.
UnknownRemoteHeldAsPending ==
  /\ remote["A"] = "checkout-draft"
  /\ selectedOrder.id = "A"
  /\ selectedOrder.status = "Pending"
  /\ \A i \in Listed("A") : orders[i].status = "Pending"

\* C17: a status-change request with credentials present (from the status
\* select, or the one the booking flow makes for a Pending order) sets the new
\* status on the matching order of the list, and on the selected order when
\* its id matches, in the step that starts the remote call; no other order
\* and no other field changes its value.
OptimisticStatusFrame ==
  [][/\ \A status \in OperatorStatuses :
          (handleUpdateStatus(status) /\ CanUpdate(siteUrl, authHeader))
            => /\ orders' = [i \in DOMAIN orders |->
                               IF orders[i].id = selectedOrder.id
                                 THEN [orders[i] EXCEPT !.status = status] ELSE orders[i]]
               /\ selectedOrder' = [selectedOrder EXCEPT !.status = status]
               /\ KindCount(inflight', "updateOrderStatus")
                    > KindCount(inflight, "updateOrderStatus")
     /\ \A c \in InFlight("sendToCourier") : \A reply \in CtlBookingReplies :
          (/\ BookingReturns(c, reply)
           /\ BookingOf(c, reply).value.success
           /\ c.status = "Pending" /\ c.canUpdate)
            => /\ \A i \in DOMAIN orders :
                    orders'[i].status = IF orders[i].id = c.id THEN "Processing"
                                        ELSE orders[i].status
               /\ selectedOrder'.status =
                    IF selectedOrder # NoOrder /\ selectedOrder.id = c.id THEN "Processing"
                    ELSE selectedOrder.status]_vars

-----------------------------------------------------------------------------
(* Properties of the detail view (Spec)                                     *)

\* The credentials a courier's booking requires are absent.
RequiredAbsent(courier, keys) ==
  IF courier = "Steadfast"
    THEN keys.steadfastApiKey \in {NULL, ""} \/ keys.steadfastSecretKey \in {NULL, ""}
    ELSE keys.pathaoApiKey \in {NULL, ""} \/ keys.pathaoStoreId \in {NULL, ""}

\* C15: in a detail view whose order is not booked and which is not sending,
\* the Send action is blocked exactly when the required credentials of the
\* selected courier are absent, whatever the other courier's credentials.
SendBlockedByOwnCredentials ==
  (DetailShown /\ ~isBooked(selectedOrder) /\ modal.courierStatus # "sending" /\ Room)
    => ((ENABLED handleSendToCourier) <=> ~RequiredAbsent(modal.selectedCourier, modal.keys))

\* Send is open for Pathao although Steadfast has no credentials.
PathaoOpenWithoutSteadfast ==
  /\ DetailShown
  /\ modal.selectedCourier = "Pathao"
  /\ modal.keys.steadfastApiKey = ""
  /\ ENABLED handleSendToCourier

-----------------------------------------------------------------------------
(* Overlapping requests on one order (Spec)                                 *)

\* An updateOrderStatus call for the order id has not settled.
UpdateInFlight(id) == \E c \in InFlight("updateOrderStatus") : c.id = id

\* Every status change requested for the order id since the list was last
\* replaced has been answered.
Completed(id) ==
  /\ updates[id].requested # NULL
  /\ updates[id].answered # NULL
  /\ ~UpdateInFlight(id)

AdvanceOnlyWhileStillPending ==
  [][\A c \in InFlight("sendToCourier") : \A reply \in CtlBookingReplies :
       (BookingReturns(c, reply) /\ BookingOf(c, reply).value.success)
         => \A i \in Listed(c.id) :
              orders[i].status # "Pending" => orders'[i].status = orders[i].status]_vars

-----------------------------------------------------------------------------
(* handleUpdateStatus on its own (RequestSpec): the handler applied in      *)
(* detail views with and without credentials. A view without credentials   *)
(* is what Logout, reached by keyboard behind the open view, and a new      *)
(* login leave: selectedOrder is kept, the list and the credentials are     *)
(* gone.                                                                    *)

RequestInit ==
  \E connected \in BOOLEAN, i \in DOMAIN OrderIds :
    \E first \in OrderStatus, second \in OrderStatus, shown \in OrderStatus :
      /\ isLoggedIn = TRUE
      /\ isConnected = connected
      /\ siteUrl = IF connected THEN "https://shop.example" ELSE NULL
      /\ authHeader = IF connected THEN "Basic dXNlcjpwYXNz" ELSE NULL
      /\ orders = IF connected
                    THEN <<[NoOrder EXCEPT !.id = OrderIds[1], !.status = first],
                           [NoOrder EXCEPT !.id = OrderIds[2], !.status = second]>>
                    ELSE << >>
      /\ selectedOrder = [NoOrder EXCEPT !.id = OrderIds[i], !.status = shown]
      /\ isLoading = FALSE
      /\ error = << >>
      /\ localStorage = IF connected
                          THEN [ClearedStorage EXCEPT !.isLoggedIn = "true",
                                                      !.siteUrl = "https://shop.example",
                                                      !.authHeader = "Basic dXNlcjpwYXNz"]
                          ELSE [ClearedStorage EXCEPT !.isLoggedIn = "true"]
      /\ modal = MountedModal(ClearedStorage)
      /\ inflight = EmptyBag
      /\ remote = InitialStore
      /\ alerts = {}
      /\ booked = {}
      /\ resync = "idle"
      /\ issued = 0
      /\ updates = NoUpdates
      /\ history = NoHistory
      /\ gw = GwIdle

RequestNext == \E status \in OperatorStatuses : handleUpdateStatus(status)

RequestSpec == RequestInit /\ [][RequestNext]_vars

\* C18: a status-change request made while the site URL or the auth
\* credential is absent changes neither the order list, nor the selected
\* order, nor the error, and starts no call.
RequestWithoutCredentialsIsNoOp ==
  [][\A status \in OperatorStatuses :
       (handleUpdateStatus(status) /\ (Falsy(siteUrl) \/ Falsy(authHeader)))
         => (orders' = orders /\ selectedOrder' = selectedOrder /\ error' = error
             /\ inflight' = inflight)]_vars

\* A detail view without credentials in which the status select is operable.
RequestWithoutCredentials ==
  /\ Falsy(siteUrl)
  /\ Falsy(authHeader)
  /\ DetailShown
  /\ selectedOrder.status = "Pending"
  /\ ENABLED handleUpdateStatus("Shipped")
  /\ inflight = EmptyBag

-----------------------------------------------------------------------------
(* Failures, frames and sessions of the controller (Spec)                   *)

\* The messages a failed fetchOrders leaves in the error state.
FetchFailureMessages ==
  {fetchOrders(TRUE, FALSE, reply).thrown.message :
     reply \in {r \in CtlFetchReplies(remote) : fetchOrders(TRUE, FALSE, r).kind = "threw"}}

\* C21: a status update that fails shows the operator the message of its
\* error in a notification, that message names the failed update and is
\* none of the messages a failed fetch shows, and a notification once shown
\* stays shown whatever the refetch does.
UpdateFailureSurfaced ==
  [][/\ \A c \in InFlight("updateOrderStatus") :
          (UpdateReturns(c, UpdateRejected)
             /\ updateOrderStatus(c.status, TRUE, FALSE, UpdateRejected).kind = "threw")
            => LET msg == updateOrderStatus(c.status, TRUE, FALSE, UpdateRejected).thrown.message
               IN /\ msg \in alerts'
                  /\ Includes(msg, <<"Failed to update order status.">>)
                  /\ msg \notin FetchFailureMessages
     /\ alerts \subseteq alerts']_vars

\* A failed update and the fetch it started have both been handled, and the
\* notification of the failure has been shown.
UpdateFailureShown ==
  /\ resync = "owed"
  /\ inflight = EmptyBag
  /\ ~isLoading
  /\ error = << >>
  /\ \E msg \in alerts : Includes(msg, <<"Failed to update order status.">>)

\* The order ids of a list, in the list's order.
Ids(list) == [i \in DOMAIN list |-> list[i].id]

\* C23: the optimistic step of handleUpdateStatus and the booking flow with
\* its handleOrderBooked leave the sequence of order ids of the list as it
\* was: no order is added, removed or moved.
StatusAndBookingKeepIds ==
  [][(\/ \E status \in OperatorStatuses : handleUpdateStatus(status)
      \/ \E c \in InFlight("sendToCourier") : \E reply \in CtlBookingReplies :
           BookingReturns(c, reply))
       => Ids(orders') = Ids(orders)]_vars

\* The second order of the list has been booked and then given another status
\* by the operator, and the list still holds the orders in their places.
BookedAndUpdatedInPlace ==
  /\ Len(orders) = Len(OrderIds)
  /\ Ids(orders) = OrderIds
  /\ Carries(orders[2])
  /\ orders[2].status = "Shipped"

\* The entries of localStorage that hold credentials.
CredentialKeys ==
  {"siteUrl", "authHeader", "steadfastApiKey", "steadfastSecretKey",
   "pathaoApiKey", "pathaoStoreId"}

\* A step of a fetch, a status update or a booking, from its start to its end.
RemoteOperationStep ==
  \/ Refresh
  \/ \E reply \in CtlFetchReplies(remote) : FetchReturns(reply)
  \/ \E status \in OperatorStatuses : handleUpdateStatus(status)
  \/ \E c \in InFlight("updateOrderStatus") :
       \E reply \in {UpdateAccepted(c.id, wcStatusOf(c.status)), UpdateRejected} :
         UpdateReturns(c, reply)
  \/ handleSendToCourier
  \/ \E c \in InFlight("sendToCourier") : \E reply \in CtlBookingReplies :
       BookingReturns(c, reply)

\* C24: no step of a fetch, a status update or a booking changes a stored
\* credential or the credentials the controller holds; an entry of the store
\* that holds a credential is removed by logout only; and logout removes all
\* of them and leaves the controller not logged in and not connected.
CredentialsDurableUntilLogout ==
  [][/\ RemoteOperationStep
          => /\ \A key \in CredentialKeys : localStorage'[key] = localStorage[key]
             /\ siteUrl' = siteUrl
             /\ authHeader' = authHeader
     /\ (\E key \in CredentialKeys : localStorage[key] # NULL /\ localStorage'[key] = NULL)
          => handleLogout
     /\ handleLogout
          => /\ \A key \in CredentialKeys : localStorage'[key] = NULL
             /\ siteUrl' = NULL
             /\ authHeader' = NULL
             /\ ~isLoggedIn'
             /\ ~isConnected']_vars

\* The operator has logged out of a session in which an order was booked with
\* stored courier keys: the store is empty.
LoggedOutAfterBooking ==
  /\ ~isLoggedIn
  /\ ~isConnected
  /\ booked # {}
  /\ \A key \in CredentialKeys : localStorage[key] = NULL

\* C26: from logout until the operator connects again the order list is
\* empty, whatever call started before the logout returns meanwhile. (The
\* controller is not connected only before the first connection, with the
\* list still empty, and after a logout.)
ListEmptyAfterLogout == ~isConnected => orders = << >>

\* C27: while no call is in flight, the selected order has the status, the
\* courier and the tracking id of the list entry with its id, if the list has
\* one.
SelectedAgreesWithList ==
  (inflight = EmptyBag /\ selectedOrder # NoOrder)
    => \A i \in Listed(selectedOrder.id) :
         /\ selectedOrder.status = orders[i].status
         /\ selectedOrder.courier = orders[i].courier
         /\ selectedOrder.trackingId = orders[i].trackingId

\* The number of sendToCourier calls for the order id that have not returned.
BookingsInFlight(id) ==
  LET calls == {c \in InFlight("sendToCourier") : c.id = id}
      RECURSIVE Sum(_)
      Sum(S) == IF S = {} THEN 0
                ELSE LET c == CHOOSE x \in S : TRUE
                     IN CopiesIn(c, inflight) + Sum(S \ {c})
  IN Sum(calls)

\* C28: at most one booking request for an order is in flight at any time.
OneBookingInFlightPerOrder ==
  \A i \in DOMAIN OrderIds : BookingsInFlight(OrderIds[i]) <= 1

-----------------------------------------------------------------------------
(* Messages and the status round trip of the Order Gateway (GatewaySpec)    *)

\* C22: the error updateOrderStatus raises for a non-OK reply carries the
\* message of the reply's JSON body when the body parses and has one, and the
\* generic message only otherwise.
UpdateErrorCarriesRemoteMessage ==
  (/\ gw.fn = "updateOrderStatus"
   /\ ~checkMixedContent(gw.appHttps, gw.siteHttp)
   /\ gw.reply.fault = "none"
   /\ ~ResponseOk(gw.reply.status))
    => /\ gw.result.kind = "threw"
       /\ IF gw.reply.parses /\ ~Falsy(gw.reply.message)
            THEN ThrownMessage(gw.result) = <<gw.reply.message>>
            ELSE Includes(ThrownMessage(gw.result), <<"Failed to update order status.">>)

\* C30: the remote value updateOrderStatus sends for a local status is mapped
\* back by mapWooCommerceOrder to that same local status.
StatusRoundTrip ==
  (gw.fn = "updateOrderStatus" /\ gw.status \in OrderStatus /\ gw.result.sent # << >>)
    => mapStatus(gw.result.sent[1]) = gw.status

-----------------------------------------------------------------------------
(* The detail view's courier histories (HistorySpec): the effect that runs  *)
(* when the view mounts starts up to two fetchCourierCustomerHistory calls, *)
(* and each writes its own three pieces of state when it settles. The       *)
(* controller's state takes no part in it.                                  *)

HistoryCall(id, courier, config) ==
  Call("fetchCourierCustomerHistory", id, NULL, courier, config, FALSE, FALSE, TRUE)

\* if (sfApiKey && sfSecretKey)
SteadfastHistoryStarts(ls) == ~Falsy(ls.steadfastApiKey) /\ ~Falsy(ls.steadfastSecretKey)

\* if (ptApiKey)
PathaoHistoryStarts(ls) == ~Falsy(ls.pathaoApiKey)

\* The history state the effect leaves behind before either call settles.
HistoryAtMount(ls) ==
  [NoHistory EXCEPT !.isSteadfastHistoryLoading = SteadfastHistoryStarts(ls),
                    !.isPathaoHistoryLoading = PathaoHistoryStarts(ls)]

\* The calls the effect starts for the order id.
HistoryCallsAtMount(id, ls) ==
  (IF SteadfastHistoryStarts(ls)
     THEN {HistoryCall(id, "Steadfast",
                       [apiKey |-> ls.steadfastApiKey, secretKey |-> ls.steadfastSecretKey,
                        storeId |-> NULL])}
     ELSE {})
    \cup
  (IF PathaoHistoryStarts(ls)
     THEN {HistoryCall(id, "Pathao",
                       [apiKey |-> ls.pathaoApiKey, secretKey |-> NULL,
                        storeId |-> ls.pathaoStoreId])}
     ELSE {})

\* Faulty variant of HistorySettled: one error slot and one loading flag for
\* both couriers.
HistorySettledSharedError(view, courier, r) ==
  LET msg == CaughtMessage(r.thrown, <<"Could not load", courier, "history.">>)
      data == IF r.kind = "returned" THEN <<r.value>> ELSE << >>
  IN IF courier = "Steadfast"
       THEN [view EXCEPT !.steadfastHistory = IF r.kind = "returned" THEN data ELSE @,
                         !.steadfastHistoryError = IF r.kind = "threw" THEN msg ELSE @,
                         !.isSteadfastHistoryLoading = FALSE]
       ELSE [view EXCEPT !.pathaoHistory = IF r.kind = "returned" THEN data ELSE @,
                         !.steadfastHistoryError = IF r.kind = "threw" THEN msg ELSE @,
                         !.isSteadfastHistoryLoading = FALSE]

\* .then(setXHistory).catch(error => setXHistoryError(...))
\* .finally(() => setIsXHistoryLoading(false)) for the courier's call that
\* settled with r.
HistorySettled(view, courier, r) ==
  LET msg == CaughtMessage(r.thrown, <<"Could not load", courier, "history.">>)
      data == IF r.kind = "returned" THEN <<r.value>> ELSE << >>
  IN IF courier = "Steadfast"
       THEN [view EXCEPT !.steadfastHistory = IF r.kind = "returned" THEN data ELSE @,
                         !.steadfastHistoryError = IF r.kind = "threw" THEN msg ELSE @,
                         !.isSteadfastHistoryLoading = FALSE]
       ELSE [view EXCEPT !.pathaoHistory = IF r.kind = "returned" THEN data ELSE @,
                         !.pathaoHistoryError = IF r.kind = "threw" THEN msg ELSE @,
                         !.isPathaoHistoryLoading = FALSE]

\* The page with its list on screen, for each content of the courier settings.
HistoryInit ==
  \E keys \in SettingsInputs \cup {NoKeys} :
    /\ isLoggedIn = TRUE
    /\ isConnected = TRUE
    /\ siteUrl = "https://shop.example"
    /\ authHeader = "Basic dXNlcjpwYXNz"
    /\ orders = FreshOrders(InitialStore)
    /\ selectedOrder = NoOrder
    /\ isLoading = FALSE
    /\ error = << >>
    /\ localStorage = [isLoggedIn |-> "true", siteUrl |-> "https://shop.example",
                       authHeader |-> "Basic dXNlcjpwYXNz",
                       steadfastApiKey |-> keys.steadfastApiKey,
                       steadfastSecretKey |-> keys.steadfastSecretKey,
                       pathaoApiKey |-> keys.pathaoApiKey,
                       pathaoStoreId |-> keys.pathaoStoreId]
    /\ modal = NoModal
    /\ history = NoHistory
    /\ inflight = EmptyBag
    /\ remote = InitialStore
    /\ alerts = {}
    /\ booked = {}
    /\ resync = "idle"
    /\ issued = 0
    /\ updates = NoUpdates
    /\ gw = GwIdle

\* OrderList.onViewDetails and the mount of the detail view with its effect.
MountDetail(i) ==
  /\ ListShown
  /\ i \in DOMAIN orders
  /\ Room
  /\ selectedOrder' = orders[i]
  /\ modal' = MountedModal(localStorage)
  /\ history' = HistoryAtMount(localStorage)
  /\ inflight' = inflight (+) SetToBag(HistoryCallsAtMount(orders[i].id, localStorage))
  /\ issued' = issued + 1
  /\ UNCHANGED <<gw, updates, orders, isLoading, error, isLoggedIn, isConnected, siteUrl,
                 authHeader, localStorage, remote, alerts, booked, resync>>

\* The close button: the view unmounts and its state is discarded.
UnmountDetail ==
  /\ DetailShown
  /\ selectedOrder' = NoOrder
  /\ modal' = NoModal
  /\ history' = NoHistory
  /\ inflight' = Unmounted(inflight)
  /\ UNCHANGED <<gw, updates, issued, orders, isLoading, error, isLoggedIn, isConnected,
                 siteUrl, authHeader, localStorage, remote, alerts, booked, resync>>

\* fetchCourierCustomerHistory settles for call c; the setters of an unmounted
\* view do nothing.
HistoryReturns(c, reply) ==
  /\ c \in InFlight("fetchCourierCustomerHistory")
  /\ history' = IF c.live
                  THEN HistorySettled(history, c.courier,
                                      fetchCourierCustomerHistory(c.courier, c.config, reply))
                  ELSE history
  /\ inflight' = Finish(inflight, c)
  /\ UNCHANGED <<gw, updates, issued, orders, selectedOrder, isLoading, error, isLoggedIn,
                 isConnected, siteUrl, authHeader, localStorage, modal, remote, alerts,
                 booked, resync>>

HistoryNext ==
  \/ \E i \in DOMAIN OrderIds : MountDetail(i)
  \/ UnmountDetail
  \/ \E c \in InFlight("fetchCourierCustomerHistory") :
       \E reply \in HistoryReplies : HistoryReturns(c, reply)

HistorySpec == HistoryInit /\ [][HistoryNext]_vars

\* The three pieces of history state of one courier.
HistorySlot(view, courier) ==
  IF courier = "Steadfast"
    THEN <<view.steadfastHistory, view.steadfastHistoryError, view.isSteadfastHistoryLoading>>
    ELSE <<view.pathaoHistory, view.pathaoHistoryError, view.isPathaoHistoryLoading>>

\* C25: when a history fetch of the mounted detail view settles, its result
\* or its error goes to the slot of its own courier and that slot stops
\* loading, the other courier's slot keeps its content whatever it is, and
\* the other courier's call, if not yet settled, stays in flight.
HistorySlotsIndependent ==
  [][\A c \in InFlight("fetchCourierCustomerHistory") : \A reply \in HistoryReplies :
       (HistoryReturns(c, reply) /\ c.live)
         => LET r == fetchCourierCustomerHistory(c.courier, c.config, reply)
                other == IF c.courier = "Steadfast" THEN "Pathao" ELSE "Steadfast"
            IN /\ HistorySlot(history', c.courier) =
                    <<IF r.kind = "returned" THEN <<r.value>>
                      ELSE HistorySlot(history, c.courier)[1],
                      IF r.kind = "threw" THEN r.thrown.message
                      ELSE HistorySlot(history, c.courier)[2],
                      FALSE>>
               /\ HistorySlot(history', other) = HistorySlot(history, other)
               /\ \A d \in InFlight("fetchCourierCustomerHistory") :
                    d # c => CopiesIn(d, inflight') = CopiesIn(d, inflight)]_vars

\* Both lookups of the mounted view have settled, Pathao's with a failure and
\* Steadfast's with a result: one slot shows the error, the other the history.
HistoryStoredBesideFailure ==
  /\ DetailShown
  /\ history.pathaoHistoryError # << >>
  /\ history.pathaoHistory = << >>
  /\ history.steadfastHistory # << >>
  /\ history.steadfastHistoryError = << >>
  /\ ~history.isSteadfastHistoryLoading
  /\ ~history.isPathaoHistoryLoading

-----------------------------------------------------------------------------
(* The controller with every issued request returning (FairSpec)            *)

FetchReturnsSome == \E reply \in CtlFetchReplies(remote) : FetchReturns(reply)

UpdateReturnsSome ==
  \E c \in InFlight("updateOrderStatus") :
    \E reply \in {UpdateAccepted(c.id, wcStatusOf(c.status)), UpdateRejected} :
      UpdateReturns(c, reply)

BookingReturnsSome ==
  \E c \in InFlight("sendToCourier") : \E reply \in CtlBookingReplies : BookingReturns(c, reply)

\* Spec, with no call left in flight for ever.
FairSpec ==
  /\ Spec
  /\ WF_vars(FetchReturnsSome)
  /\ WF_vars(UpdateReturnsSome)
  /\ WF_vars(BookingReturnsSome)

\* C29: a page opened logged in with a stored site URL stops loading at some
\* point, whatever the stored auth credential is, absent included.
LoadingEnds ==
  (isLoggedIn /\ ~Falsy(localStorage.siteUrl)) => <>(~isLoading)

=============================================================================
